---- MODULE Spec2Model ----
(***************************************************************************)
(* Model of webscraper.py: main() discovers the pages of a listing, runs   *)
(* scrape_page on each of them in a thread pool, extends the cache with    *)
(* each worker's result, saves the cache file after each non-empty result  *)
(* and finally merges the cache's records into the output CSV.             *)
(*                                                                         *)
(* The cache dict {"scraped_urls": {...}, "projects": [...]} is shared by  *)
(* the main thread and every worker thread.  Each action below is one      *)
(* step a thread takes between two points where another thread can run.    *)
(***************************************************************************)
EXTENDS Integers, Sequences, FiniteSets, TLC

(* ------------------------------------------------------------------ *)
(* Bounds and program constants                                        *)
(* ------------------------------------------------------------------ *)

\* number of times the script is run one after the other
MaxRuns == 2

\* CONFIG['max_workers'], scaled down so that the pool limit binds
max_workers == 2

main_url == "p1"

\* an <h1> without an <a> below it: find_element raises for it
NoLink == "nolink"

Item(n, h) == [name |-> n, href |-> h]

(* ------------------------------------------------------------------ *)
(* The listing sources the runs are checked against.  links: the hrefs *)
(* of the pagination anchors of the seed page; content: the <h1> items *)
(* of each page in document order.                                     *)
(* ------------------------------------------------------------------ *)

NoItems == << >>

\* the scenario of the specification: u2 is listed by both pages
SourceOverlap ==
    [links |-> <<"p2">>,
     content |-> [p \in {"p1", "p2", "p3"} |->
        IF p = "p1" THEN <<Item("proj1", "u1"), Item("proj2", "u2")>>
        ELSE IF p = "p2" THEN <<Item("proj2", "u2"), Item("proj3", "u3")>>
        ELSE NoItems]]

\* three pages for two pool threads; the last page has no item
SourceThreePages ==
    [links |-> <<"p2", "p3">>,
     content |-> [p \in {"p1", "p2", "p3"} |->
        IF p \in {"p1", "p2"} THEN <<Item("proj1", "u1")>> ELSE NoItems]]

\* a malformed item before a good one, and an item whose link is the url of
\* the second page
SourceMalformed ==
    [links |-> <<"p2">>,
     content |-> [p \in {"p1", "p2", "p3"} |->
        IF p = "p1" THEN <<Item("bad", NoLink), Item("next", "p2")>>
        ELSE IF p = "p2" THEN <<Item("proj1", "u1")>>
        ELSE NoItems]]

\* no item on the only page
SourceEmpty ==
    [links |-> << >>,
     content |-> [p \in {"p1", "p2", "p3"} |-> NoItems]]

\* the pagination bar links back to the seed page
SourceSelfLink ==
    [links |-> <<"p1">>,
     content |-> [p \in {"p1", "p2", "p3"} |->
        IF p = "p1" THEN <<Item("proj1", "u1")>> ELSE NoItems]]

Sources ==
    {SourceOverlap, SourceThreePages, SourceMalformed, SourceEmpty, SourceSelfLink}

\* page_links holds the seed and the links of the source
Futures == 1..3

(* ------------------------------------------------------------------ *)
(* State                                                               *)
(* ------------------------------------------------------------------ *)

VARIABLES
    source,        \* the listing the runs scrape (unchanged between runs)
    run,           \* number of the current run of the script
    mpc,           \* position of the main thread
    seen,          \* keys of cache['scraped_urls']
    projects,      \* cache['projects']
    page_links,    \* page_links of main
    futures,       \* per submitted future: the state of its scrape_page call
    consumed,      \* futures as_completed has already yielded
    iterSeen,      \* keys of scraped_urls when json.dump began to iterate them
    cache_file,    \* CONFIG['cache_file'] on disk
    output_csv,    \* CONFIG['output_csv'] on disk
    summary,       \* the counts main prints at the end of the run
    hist           \* history of the run, read by the properties only

vars == <<source, run, mpc, seen, projects, page_links, futures, consumed,
          iterSeen, cache_file, output_csv, summary, hist>>

(* ------------------------------------------------------------------ *)
(* Helpers                                                             *)
(* ------------------------------------------------------------------ *)

Urls(recs) == {recs[i].URL : i \in DOMAIN recs}

\* number of rows of recs with url u
Count(recs, u) == Cardinality({i \in DOMAIN recs : recs[i].URL = u})

NoDuplicateUrl(recs) == \A u \in Urls(recs) : Count(recs, u) = 1

NoFuture == [pc |-> "none", i |-> 0, page_data |-> << >>]

EmptyFile == [st |-> "absent", scraped_urls |-> {}, projects |-> << >>]

NoCsv == [st |-> "absent", rows |-> << >>]

NoSummary == [total |-> 0, new |-> 0]

NoMerge ==
    [before |-> {}, cands |-> {}, after |-> {}, snap |-> {}, saved |-> FALSE]

NoPrev ==
    [end |-> "", failed |-> FALSE, persistFailed |-> FALSE, ioFailed |-> FALSE,
     urls |-> {}]

NewHist(crashed, persistFailed) ==
    [ioFailed |-> FALSE,                     \* an open or a write raised OSError
     discovery |-> "",                       \* how the discovery step ended
     failed |-> {},                          \* futures whose page failed
     extracted |-> [w \in Futures |-> {}],   \* hrefs each worker has read
     added |-> 0,                            \* records added to projects
     crashed |-> crashed,                    \* an earlier run was killed
     persistFailed |-> persistFailed,        \* a save_cache of this run raised
     merge |-> NoMerge,                      \* the last merge that was saved
     prev |-> NoPrev]                        \* what the previous run left

(* ------------------------------------------------------------------ *)
(* Init: nothing on disk, the script about to run for the first time   *)
(* ------------------------------------------------------------------ *)

Init ==
    /\ source \in Sources
    /\ run = 1
    /\ mpc = "load"
    /\ seen = {}
    /\ projects = << >>
    /\ page_links = << >>
    /\ futures = [w \in Futures |-> NoFuture]
    /\ consumed = {}
    /\ iterSeen = {}
    /\ cache_file = EmptyFile
    /\ output_csv = NoCsv
    /\ summary = NoSummary
    /\ hist = NewHist(FALSE, FALSE)

(* ------------------------------------------------------------------ *)
(* main: load_cache and pagination discovery                           *)
(* ------------------------------------------------------------------ *)

\* get_attribute('href') of an anchor without href (line 104): None
NoHref == "None"

\* json.dump writes a dict key that is None as the string "null" (line 74);
\* json.load reads it back as that string (line 68)
JsonKey(k) == IF k = NoHref THEN "null" ELSE k

\* the scraped_urls object as json.load reads it back after json.dump
JsonKeys(scraped_urls) == {JsonKey(k) : k \in scraped_urls}

\* load_cache(): json.load raises on a file that does not hold a whole
\* document, and main does not catch it
load_cache ==
    /\ mpc = "load"
    /\ IF cache_file.st = "absent"
         THEN /\ seen' = {}
              /\ projects' = << >>
              /\ mpc' = "discover"
         ELSE IF cache_file.st = "full"
         THEN /\ seen' = cache_file.scraped_urls
              /\ projects' = cache_file.projects
              /\ mpc' = "discover"
         ELSE /\ mpc' = "aborted"
              /\ UNCHANGED <<seen, projects>>
    /\ UNCHANGED <<source, run, page_links, futures, consumed, iterSeen,
                   cache_file, output_csv, summary, hist>>

\* the hrefs line 138 adds to page_links
RECURSIVE NewLinks(_, _)
NewLinks(links, scraped_urls) ==
    IF links = << >> THEN << >>
    ELSE IF Head(links) \notin scraped_urls
    THEN <<Head(links)>> \o NewLinks(Tail(links), scraped_urls)
    ELSE NewLinks(Tail(links), scraped_urls)

\* setup_driver() raised: line 134 is outside the try
DiscoverNoDriver ==
    /\ mpc = "discover"
    /\ mpc' = "aborted"
    /\ hist' = [hist EXCEPT !.discovery = "no_driver"]
    /\ UNCHANGED <<source, run, seen, projects, page_links, futures, consumed,
                   iterSeen, cache_file, output_csv, summary>>

\* get() or find_elements() raised: page_links stays [main_url]
DiscoverFailed ==
    /\ mpc = "discover"
    /\ page_links' = <<main_url>>
    /\ mpc' = "submit"
    /\ hist' = [hist EXCEPT !.discovery = "failed"]
    /\ UNCHANGED <<source, run, seen, projects, futures, consumed,
                   iterSeen, cache_file, output_csv, summary>>

DiscoverPages ==
    /\ mpc = "discover"
    /\ page_links' = <<main_url>> \o NewLinks(source.links, seen)
    /\ mpc' = "submit"
    /\ hist' = [hist EXCEPT !.discovery = "ok"]
    /\ UNCHANGED <<source, run, seen, projects, futures, consumed,
                   iterSeen, cache_file, output_csv, summary>>

\* discovery_driver.quit() raised in the finally block: not caught either
DiscoverQuitFailed ==
    /\ mpc = "discover"
    /\ mpc' = "aborted"
    /\ hist' = [hist EXCEPT !.discovery = "quit_failed"]
    /\ UNCHANGED <<source, run, seen, projects, page_links, futures, consumed,
                   iterSeen, cache_file, output_csv, summary>>

(* ------------------------------------------------------------------ *)
(* The thread pool and scrape_page                                     *)
(* ------------------------------------------------------------------ *)

\* executor.submit for every url of page_links
Submit ==
    /\ mpc = "submit"
    /\ futures' = [w \in Futures |->
                      IF w <= Len(page_links)
                      THEN [pc |-> "pending", i |-> 0, page_data |-> << >>]
                      ELSE NoFuture]
    /\ mpc' = "collect"
    /\ UNCHANGED <<source, run, seen, projects, page_links, consumed,
                   iterSeen, cache_file, output_csv, summary, hist>>

\* main is inside the with block: the pool threads run
PoolOpen == mpc \in {"collect", "save", "dump_seen", "dump_projects"}

\* the future holds a thread of the pool
Running(w) == futures[w].pc \in {"get", "item", "add", "quit"}

\* a pool of as many threads as there are work items
CanStartUnbounded(w) ==
    /\ PoolOpen
    /\ futures[w].pc = "pending"
    /\ \A v \in Futures : v < w => futures[v].pc # "pending"

\* a pool thread takes the next work item of the queue
CanStart(w) ==
    /\ PoolOpen
    /\ futures[w].pc = "pending"
    /\ \A v \in Futures : v < w => futures[v].pc # "pending"
    /\ Cardinality({v \in Futures : Running(v)}) < max_workers

Items(w) == source.content[page_links[w]]

\* lines 79-80: the page url is a key of scraped_urls
SkipPage(w) ==
    /\ CanStart(w)
    /\ page_links[w] \in seen
    /\ futures' = [futures EXCEPT ![w].pc = "returned"]
    /\ UNCHANGED <<source, run, mpc, seen, projects, page_links, consumed,
                   iterSeen, cache_file, output_csv, summary, hist>>

\* line 89: setup_driver returned a driver
StartDriver(w) ==
    /\ CanStart(w)
    /\ page_links[w] \notin seen
    /\ futures' = [futures EXCEPT ![w].pc = "get"]
    /\ UNCHANGED <<source, run, mpc, seen, projects, page_links, consumed,
                   iterSeen, cache_file, output_csv, summary, hist>>

\* line 89: setup_driver raised, before the try: the future holds the exception
StartNoDriver(w) ==
    /\ CanStart(w)
    /\ page_links[w] \notin seen
    /\ futures' = [futures EXCEPT ![w].pc = "raised"]
    /\ hist' = [hist EXCEPT !.failed = @ \cup {w}]
    /\ UNCHANGED <<source, run, mpc, seen, projects, page_links, consumed,
                   iterSeen, cache_file, output_csv, summary>>

\* lines 93-98: the page loaded.  With no <h1> on it the wait times out and
\* the except block returns []
GetPage(w) ==
    /\ PoolOpen
    /\ futures[w].pc = "get"
    /\ futures' = [futures EXCEPT ![w] =
                      IF Items(w) = << >>
                      THEN [@ EXCEPT !.pc = "quit"]
                      ELSE [@ EXCEPT !.pc = "item", !.i = 1]]
    /\ UNCHANGED <<source, run, mpc, seen, projects, page_links, consumed,
                   iterSeen, cache_file, output_csv, summary, hist>>

\* lines 93-98 raised: lines 119-121 return []
GetFailed(w) ==
    /\ PoolOpen
    /\ futures[w].pc = "get"
    /\ futures' = [futures EXCEPT ![w].pc = "quit"]
    /\ hist' = [hist EXCEPT !.failed = @ \cup {w}]
    /\ UNCHANGED <<source, run, mpc, seen, projects, page_links, consumed,
                   iterSeen, cache_file, output_csv, summary>>

\* an exception of lines 102-104 is not caught per item and ends the loop
NextItemAborted(f, n) == [f EXCEPT !.pc = "quit"]

\* the loop of line 100 goes to its next item, or line 117 returns page_data
NextItem(f, n) ==
    IF f.i < n THEN [f EXCEPT !.pc = "item", !.i = @ + 1]
    ELSE [f EXCEPT !.pc = "quit"]

\* lines 102-106: read the item; a missing link raises and line 114 catches it
ReadItem(w) ==
    /\ PoolOpen
    /\ futures[w].pc = "item"
    /\ LET href == Items(w)[futures[w].i].href IN
        IF href = NoLink
        THEN /\ futures' = [futures EXCEPT ![w] = NextItem(@, Len(Items(w)))]
             /\ hist' = hist
        ELSE /\ futures' = [futures EXCEPT ![w] =
                               IF href \notin seen
                               THEN [@ EXCEPT !.pc = "add"]
                               ELSE NextItem(@, Len(Items(w)))]
             /\ hist' = [hist EXCEPT !.extracted[w] = @ \cup {href}]
    /\ UNCHANGED <<source, run, mpc, seen, projects, page_links, consumed,
                   iterSeen, cache_file, output_csv, summary>>

\* the dict lines 107-111 build; the timestamp is the run it was taken in
Record(item, now) ==
    [Name |-> item.name, URL |-> item.href, Timestamp |-> now]

\* line 112 left out
MarkScrapedForgotten(scraped_urls, url) == scraped_urls

\* line 112, in the worker thread
MarkScraped(scraped_urls, url) == scraped_urls \cup {url}

\* lines 107-112: append the record and mark its url
AddItem(w) ==
    /\ PoolOpen
    /\ futures[w].pc = "add"
    /\ LET item == Items(w)[futures[w].i] IN
        /\ futures' = [futures EXCEPT ![w] =
               NextItem([@ EXCEPT !.page_data = Append(@, Record(item, run))],
                        Len(Items(w)))]
        /\ seen' = MarkScraped(seen, item.href)
    /\ UNCHANGED <<source, run, mpc, projects, page_links, consumed,
                   iterSeen, cache_file, output_csv, summary, hist>>

\* line 123: driver.quit() returned; the future holds page_data, or [] after
\* a failed fetch
QuitDriver(w) ==
    /\ PoolOpen
    /\ futures[w].pc = "quit"
    /\ futures' = [futures EXCEPT ![w].pc = "returned"]
    /\ UNCHANGED <<source, run, mpc, seen, projects, page_links, consumed,
                   iterSeen, cache_file, output_csv, summary, hist>>

\* line 123: driver.quit() raised in the finally block: the exception replaces
\* the return value
QuitFailed(w) ==
    /\ PoolOpen
    /\ futures[w].pc = "quit"
    /\ futures' = [futures EXCEPT ![w] = [@ EXCEPT !.pc = "raised", !.page_data = << >>]]
    /\ hist' = [hist EXCEPT !.failed = @ \cup {w}]
    /\ UNCHANGED <<source, run, mpc, seen, projects, page_links, consumed,
                   iterSeen, cache_file, output_csv, summary>>

scrape_page(w) ==
    \/ SkipPage(w)
    \/ StartDriver(w)
    \/ StartNoDriver(w)
    \/ GetPage(w)
    \/ GetFailed(w)
    \/ ReadItem(w)
    \/ AddItem(w)
    \/ QuitDriver(w)
    \/ QuitFailed(w)

(* ------------------------------------------------------------------ *)
(* main: the as_completed loop and save_cache                          *)
(* ------------------------------------------------------------------ *)

\* line 153 raised the worker's exception: line 159 logs it
CollectRaised(w) ==
    /\ mpc = "collect"
    /\ w \notin consumed
    /\ futures[w].pc = "raised"
    /\ consumed' = consumed \cup {w}
    /\ UNCHANGED <<source, run, mpc, seen, projects, page_links, futures,
                   iterSeen, cache_file, output_csv, summary, hist>>

\* lines 153-154: the result is []
CollectEmpty(w) ==
    /\ mpc = "collect"
    /\ w \notin consumed
    /\ futures[w].pc = "returned"
    /\ futures[w].page_data = << >>
    /\ consumed' = consumed \cup {w}
    /\ UNCHANGED <<source, run, mpc, seen, projects, page_links, futures,
                   iterSeen, cache_file, output_csv, summary, hist>>

\* line 155 left out
ExtendForgotten(recs, new_projects) == recs

\* line 155
Extend(recs, new_projects) == recs \o new_projects

\* lines 153-155: a non-empty result is appended to cache['projects']
CollectExtend(w) ==
    /\ mpc = "collect"
    /\ w \notin consumed
    /\ futures[w].pc = "returned"
    /\ futures[w].page_data # << >>
    /\ consumed' = consumed \cup {w}
    /\ projects' = Extend(projects, futures[w].page_data)
    /\ mpc' = "save"
    /\ hist' = [hist EXCEPT
                   !.added = @ + Len(futures[w].page_data),
                   !.merge = [before |-> seen, cands |-> hist.extracted[w],
                              after |-> seen, snap |-> {}, saved |-> FALSE]]
    /\ UNCHANGED <<source, run, seen, page_links, futures,
                   iterSeen, cache_file, output_csv, summary>>

\* line 158 left out: an exception of save_cache ends main
AfterSaveErrorRaised == "aborted"

\* where line 158 leaves main after an exception of save_cache: in the loop
AfterSaveError == "collect"

\* line 73: open(..., 'w') truncates the file; json.dump starts on the dict
SaveOpen ==
    /\ mpc = "save"
    /\ cache_file' = [st |-> "partial", scraped_urls |-> {}, projects |-> << >>]
    /\ iterSeen' = seen
    /\ mpc' = "dump_seen"
    /\ UNCHANGED <<source, run, seen, projects, page_links, futures, consumed,
                   output_csv, summary, hist>>

\* line 73: open raised (OSError); the file is as it was
SaveOpenFailed ==
    /\ mpc = "save"
    /\ mpc' = AfterSaveError
    /\ hist' = [hist EXCEPT !.persistFailed = TRUE, !.ioFailed = TRUE]
    /\ UNCHANGED <<source, run, seen, projects, page_links, futures, consumed,
                   iterSeen, cache_file, output_csv, summary>>

\* line 74: json.dump has written the items of scraped_urls
DumpSeen ==
    /\ mpc = "dump_seen"
    /\ seen = iterSeen
    /\ cache_file' = [cache_file EXCEPT !.scraped_urls = JsonKeys(iterSeen)]
    /\ mpc' = "dump_projects"
    /\ UNCHANGED <<source, run, seen, projects, page_links, futures, consumed,
                   iterSeen, output_csv, summary, hist>>

\* line 74: a worker added a key while json.dump iterated over scraped_urls:
\* RuntimeError (dictionary changed size during iteration)
DumpSeenChanged ==
    /\ mpc = "dump_seen"
    /\ seen # iterSeen
    /\ mpc' = AfterSaveError
    /\ hist' = [hist EXCEPT !.persistFailed = TRUE]
    /\ UNCHANGED <<source, run, seen, projects, page_links, futures, consumed,
                   iterSeen, cache_file, output_csv, summary>>

\* line 74: a write raised (OSError); what was written stays in the file
DumpFailed ==
    /\ mpc \in {"dump_seen", "dump_projects"}
    /\ mpc' = AfterSaveError
    /\ hist' = [hist EXCEPT !.persistFailed = TRUE, !.ioFailed = TRUE]
    /\ UNCHANGED <<source, run, seen, projects, page_links, futures, consumed,
                   iterSeen, cache_file, output_csv, summary>>

\* line 74: json.dump has written projects and the file is closed
DumpProjects ==
    /\ mpc = "dump_projects"
    /\ cache_file' = [cache_file EXCEPT !.st = "full", !.projects = projects]
    /\ mpc' = "collect"
    /\ hist' = [hist EXCEPT !.merge.snap = cache_file.scraped_urls,
                            !.merge.saved = TRUE]
    /\ UNCHANGED <<source, run, seen, projects, page_links, futures, consumed,
                   iterSeen, output_csv, summary>>

save_cache ==
    \/ SaveOpen
    \/ SaveOpenFailed
    \/ DumpSeen
    \/ DumpSeenChanged
    \/ DumpFailed
    \/ DumpProjects

\* as_completed has yielded every future and the pool has shut down
ExitPool ==
    /\ mpc = "collect"
    /\ consumed = DOMAIN page_links
    /\ mpc' = "export"
    /\ UNCHANGED <<source, run, seen, projects, page_links, futures, consumed,
                   iterSeen, cache_file, output_csv, summary, hist>>

(* ------------------------------------------------------------------ *)
(* main: the export and the summary                                    *)
(* ------------------------------------------------------------------ *)

\* drop_duplicates(subset=['URL'], keep='last'): a row stays when no later
\* row has its url
RECURSIVE DropDuplicatesLast(_)
DropDuplicatesLast(rows) ==
    IF rows = << >> THEN << >>
    ELSE IF Head(rows).URL \in Urls(Tail(rows))
    THEN DropDuplicatesLast(Tail(rows))
    ELSE <<Head(rows)>> \o DropDuplicatesLast(Tail(rows))

\* lines 162-167: the frame to write; existing is the frame read_csv returned
ExportFrame(exists, existing, recs) ==
    IF exists THEN DropDuplicatesLast(existing \o recs) ELSE recs

\* to_csv: a frame built from [] has no columns and gives a file with no
\* header line
ToCsv(df) == [st |-> IF df = << >> THEN "nocols" ELSE "rows", rows |-> df]

\* line 174
NewProjectsAdded(recs, scraped_urls) ==
    Cardinality({i \in DOMAIN recs : recs[i].URL \notin scraped_urls})

\* lines 162-175
Export ==
    /\ mpc = "export"
    /\ output_csv.st # "nocols"
    /\ LET df == ExportFrame(output_csv.st # "absent", output_csv.rows, projects) IN
        /\ output_csv' = ToCsv(df)
        /\ summary' = [total |-> Len(df), new |-> NewProjectsAdded(projects, seen)]
    /\ mpc' = "done"
    /\ UNCHANGED <<source, run, seen, projects, page_links, futures, consumed,
                   iterSeen, cache_file, hist>>

\* line 166: read_csv raises EmptyDataError on a file with no header line
ExportReadFailed ==
    /\ mpc = "export"
    /\ output_csv.st = "nocols"
    /\ mpc' = "aborted"
    /\ UNCHANGED <<source, run, seen, projects, page_links, futures, consumed,
                   iterSeen, cache_file, output_csv, summary, hist>>

(* ------------------------------------------------------------------ *)
(* The process is killed; the script is run again                      *)
(* ------------------------------------------------------------------ *)

Ended == mpc \in {"done", "aborted", "crashed"}

\* the process is killed between two steps: its memory is gone, the files
\* stay as they are
Crash ==
    /\ ~Ended
    /\ mpc' = "crashed"
    /\ seen' = {}
    /\ projects' = << >>
    /\ page_links' = << >>
    /\ futures' = [w \in Futures |-> NoFuture]
    /\ consumed' = {}
    /\ iterSeen' = {}
    /\ summary' = NoSummary
    /\ hist' = [hist EXCEPT !.crashed = TRUE,
                            !.extracted = [w \in Futures |-> {}],
                            !.added = 0,
                            !.merge = NoMerge]
    /\ UNCHANGED <<source, run, cache_file, output_csv>>

\* the script is started again: a new process with the files of the last one
NextRun ==
    /\ Ended
    /\ run < MaxRuns
    /\ run' = run + 1
    /\ mpc' = "load"
    /\ seen' = {}
    /\ projects' = << >>
    /\ page_links' = << >>
    /\ futures' = [w \in Futures |-> NoFuture]
    /\ consumed' = {}
    /\ iterSeen' = {}
    /\ summary' = NoSummary
    /\ hist' = [NewHist(hist.crashed, FALSE)
                   EXCEPT !.prev = [end |-> mpc,
                                    failed |-> hist.failed # {}
                                               \/ hist.discovery \notin {"", "ok"},
                                    persistFailed |-> hist.persistFailed,
                                    ioFailed |-> hist.ioFailed,
                                    urls |-> Urls(output_csv.rows)]]
    /\ UNCHANGED <<source, cache_file, output_csv>>

main ==
    \/ load_cache
    \/ DiscoverNoDriver
    \/ DiscoverFailed
    \/ DiscoverPages
    \/ DiscoverQuitFailed
    \/ Submit
    \/ \E w \in Futures : CollectRaised(w)
    \/ \E w \in Futures : CollectEmpty(w)
    \/ \E w \in Futures : CollectExtend(w)
    \/ save_cache
    \/ ExitPool
    \/ Export
    \/ ExportReadFailed

Next ==
    \/ main
    \/ \E w \in Futures : scrape_page(w)
    \/ Crash
    \/ NextRun

Spec == Init /\ [][Next]_vars

(* ------------------------------------------------------------------ *)
(* The merge of one batch, run without interleaving                    *)
(* ------------------------------------------------------------------ *)

\* lines 100-117 run by one thread alone over the items of a page: the
\* records of page_data and the scraped_urls dict when line 117 returns
RECURSIVE ScrapeItems(_, _, _)
ScrapeItems(items, scraped_urls, now) ==
    IF items = << >>
    THEN [page_data |-> << >>, scraped_urls |-> scraped_urls]
    ELSE LET item == Head(items) IN
         IF item.href = NoLink \/ item.href \in scraped_urls
         THEN ScrapeItems(Tail(items), scraped_urls, now)
         ELSE LET rest == ScrapeItems(Tail(items),
                                      MarkScraped(scraped_urls, item.href),
                                      now)
              IN [page_data |-> <<Record(item, now)>> \o rest.page_data,
                  scraped_urls |-> rest.scraped_urls]

\* lines 100-117 followed by lines 153-155: one batch merged into the cache
Merge(scraped_urls, recs, items, now) ==
    LET r == ScrapeItems(items, scraped_urls, now) IN
    [scraped_urls |-> r.scraped_urls,
     projects |-> IF r.page_data # << >> THEN Extend(recs, r.page_data)
                  ELSE recs]

MergeUrls == {"u1", "u2", "u3"}

\* the batches [A, B] and [B, C] as pages p1 and p2, and [A, B, C] as p3
MergeSource(a, b, c) ==
    [links |-> <<"p2">>,
     content |-> [p \in {"p1", "p2", "p3"} |->
                    IF p = "p1" THEN <<Item("a", a), Item("b", b)>>
                    ELSE IF p = "p2" THEN <<Item("b", b), Item("c", c)>>
                    ELSE <<Item("a", a), Item("b", b), Item("c", c)>>]]

\* any records A, B, C (equal urls allowed) and any set of urls already seen
InitMerge ==
    /\ source \in {MergeSource(a, b, c) : a, b, c \in MergeUrls}
    /\ run = 1
    /\ mpc = "merge"
    /\ seen \in SUBSET MergeUrls
    /\ projects = << >>
    /\ page_links = <<"p1", "p2">>
    /\ futures = [w \in Futures |-> NoFuture]
    /\ consumed = {}
    /\ iterSeen = {}
    /\ cache_file = EmptyFile
    /\ output_csv = NoCsv
    /\ summary = NoSummary
    /\ hist = [NewHist(FALSE, FALSE) EXCEPT !.merge.before = seen]

\* the next batch is scraped and its result merged, with no other thread
MergeBatch ==
    /\ mpc = "merge"
    /\ \E k \in DOMAIN page_links :
        /\ k = Cardinality(consumed) + 1
        /\ LET m == Merge(seen, projects, source.content[page_links[k]], run)
           IN /\ seen' = m.scraped_urls
              /\ projects' = m.projects
        /\ consumed' = consumed \cup {k}
    /\ UNCHANGED <<source, run, mpc, page_links, futures, iterSeen,
                   cache_file, output_csv, summary, hist>>

SpecMerge == InitMerge /\ [][MergeBatch]_vars

(* ------------------------------------------------------------------ *)
(* save_cache and load_cache, run without interleaving                 *)
(* ------------------------------------------------------------------ *)

\* the hrefs line 104 can return: a url, or None for an anchor without href
RoundTripUrls == {"u1", "u2", NoHref}

InitRoundTrip ==
    /\ source \in {MergeSource(a, b, c) : a, b, c \in RoundTripUrls}
    /\ run = 1
    /\ mpc = "rt_start"
    /\ seen = {}
    /\ projects = << >>
    /\ page_links = <<"p1", "p2">>
    /\ futures = [w \in Futures |-> NoFuture]
    /\ consumed = {}
    /\ iterSeen = {}
    /\ cache_file = EmptyFile
    /\ output_csv = NoCsv
    /\ summary = NoSummary
    /\ hist = NewHist(FALSE, FALSE)

\* lines 64-69: load_cache() of a missing file or of a whole document
LoadSnapshot ==
    /\ mpc \in {"rt_start", "rt_saved"}
    /\ mpc' = "rt_loaded"
    /\ IF cache_file.st = "absent"
         THEN /\ seen' = {}
              /\ projects' = << >>
         ELSE /\ seen' = cache_file.scraped_urls
              /\ projects' = cache_file.projects
    /\ UNCHANGED <<source, run, page_links, futures, consumed, iterSeen,
                   cache_file, output_csv, summary, hist>>

\* lines 100-117 and 153-155 for the next page, with no other thread
MergePage ==
    /\ mpc \in {"rt_loaded", "rt_merged"}
    /\ mpc' = "rt_merged"
    /\ \E k \in DOMAIN page_links :
        /\ k = Cardinality(consumed) + 1
        /\ LET m == Merge(seen, projects, source.content[page_links[k]], run)
           IN /\ seen' = m.scraped_urls
              /\ projects' = m.projects
        /\ consumed' = consumed \cup {k}
    /\ UNCHANGED <<source, run, page_links, futures, iterSeen, cache_file,
                   output_csv, summary, hist>>

\* lines 71-74: save_cache(cache) run to its end
SaveSnapshot ==
    /\ mpc \in {"rt_loaded", "rt_merged"}
    /\ mpc' = "rt_saved"
    /\ cache_file' = [st |-> "full",
                      scraped_urls |-> JsonKeys(seen),
                      projects |-> projects]
    /\ UNCHANGED <<source, run, seen, projects, page_links, futures,
                   consumed, iterSeen, output_csv, summary, hist>>

NextRoundTrip ==
    \/ LoadSnapshot
    \/ MergePage
    \/ SaveSnapshot

SpecRoundTrip == InitRoundTrip /\ [][NextRoundTrip]_vars

(* ------------------------------------------------------------------ *)
(* Runs that are not killed, under fair scheduling                     *)
(* ------------------------------------------------------------------ *)

\* the steps of the script when nothing kills the process
NextFair ==
    \/ main
    \/ \E w \in Futures : scrape_page(w)
    \/ NextRun

\* the main thread goes on whenever it can, and so does every pool thread:
\* get() and WebDriverWait return or raise within their timeouts (lines
\* 39-40, 94), and the operating system schedules every thread
Fairness ==
    /\ WF_vars(main)
    /\ \A w \in Futures : WF_vars(scrape_page(w))

SpecFair == Init /\ [][NextFair]_vars /\ Fairness

(* ------------------------------------------------------------------ *)
(* Properties                                                          *)
(* ------------------------------------------------------------------ *)

\* no page and no discovery step of the current run has failed so far
NoFailure == hist.failed = {} /\ hist.discovery \in {"", "ok"}

\* the current run has met no failure of its environment (browser, disk) so far
NoFault == NoFailure /\ ~hist.ioFailed

\* no page url is dispatched twice, and no project link of the listing is the
\* url of one of its pages
DistinctPages ==
    /\ \A i, j \in DOMAIN page_links : i # j => page_links[i] # page_links[j]
    /\ \A p \in DOMAIN source.content : \A i \in DOMAIN source.content[p] :
          source.content[p][i].href \notin DOMAIN source.content

\* C1: at-most-once accounting: at every point of a run over distinct pages
\* no url occurs more than once in cache['projects'], whatever the
\* interleaving of the workers (stated for the first run with no fault)
C1_AtMostOnce ==
    (run = 1 /\ NoFault /\ DistinctPages) => NoDuplicateUrl(projects)

\* C2: dedup invariant of the export: the table written at the end of a run
\* holds every url at most once, on a first run and on a rerun (stated for
\* runs with no fault)
C2_ExportDedup ==
    (mpc = "done" /\ NoFault /\ DistinctPages) => NoDuplicateUrl(output_csv.rows)

\* C3: partial-failure tolerance: when exactly one page unit has failed, every
\* url the other pages yielded is in the final cache records and in the
\* exported table
C3_PartialFailure ==
    (mpc = "done" /\ Cardinality(hist.failed) = 1 /\ ~hist.ioFailed
        /\ DistinctPages /\ run = 1) =>
        \A w \in DOMAIN page_links \ hist.failed :
            /\ hist.extracted[w] \subseteq Urls(projects)
            /\ hist.extracted[w] \subseteq Urls(output_csv.rows)

\* the previous run met no failure of its environment
PrevNoFault == ~hist.prev.failed /\ ~hist.prev.ioFailed

\* C4: rerun idempotence: a second run over the unchanged source, started
\* from the files a completed first run left, adds no record to the cache
\* (every worker returns []) and writes a table with the same urls, each once
C4_RerunIdempotent ==
    (run = 2 /\ hist.prev.end = "done" /\ ~hist.crashed /\ ~hist.prev.failed
        /\ NoFault /\ DistinctPages) =>
        /\ mpc # "aborted"
        /\ hist.added = 0
        /\ \A w \in Futures : futures[w].page_data = << >>
        /\ mpc = "done" =>
              /\ Urls(output_csv.rows) = hist.prev.urls
              /\ NoDuplicateUrl(output_csv.rows)

\* C5: crash/resume convergence: when a run was killed between two steps with
\* a whole snapshot on disk and the script is run again to completion, every
\* url the pages yield is in the final cache records and in the export, and
\* no url is marked seen without being recorded
C5_CrashResume ==
    (run = 2 /\ mpc = "done" /\ hist.prev.end = "crashed" /\ PrevNoFault
        /\ NoFault /\ DistinctPages) =>
        /\ \A w \in DOMAIN page_links :
              /\ hist.extracted[w] \subseteq Urls(projects)
              /\ hist.extracted[w] \subseteq Urls(output_csv.rows)
        /\ seen \subseteq Urls(projects)

\* C6: single-mutator discipline: no step of a scrape_page worker changes
\* cache['scraped_urls'] or cache['projects']
C6_SingleMutator ==
    [][(\E w \in Futures : scrape_page(w)) => UNCHANGED <<seen, projects>>]_vars

\* C7: atomic persist: at every point the cache file is absent or holds a
\* whole snapshot, never an empty or partly written one
C7_AtomicPersist == cache_file.st \in {"absent", "full"}

\* C8: PersistError is fatal: a run in which save_cache raised does not go on
\* to complete with an export
C8_PersistErrorFatal == hist.persistFailed => mpc # "done"

\* C9: CacheState invariant: every url of cache['projects'] is a key of
\* cache['scraped_urls'], and no step of a run removes a key
C9_CacheStateInvariant ==
    /\ [](Urls(projects) \subseteq seen)
    /\ [][mpc' \notin {"crashed", "load"} => seen \subseteq seen']_vars

\* C9 witness: main has extended projects while a worker still in flight has
\* marked a url that is not yet a record
C9_Witness ==
    /\ projects # << >>
    /\ Urls(projects) # seen
    /\ Urls(projects) \subseteq seen
    /\ \E w \in Futures : Running(w)

\* C10: merge invariant: for the merge of one unit's result, a url is in seen
\* after the merge iff it was in seen before or is a candidate of the unit,
\* and the same holds of the snapshot saved right after the merge
C10_MergeInvariant ==
    (NoFault /\ DistinctPages) =>
        /\ hist.merge.after = hist.merge.before \cup hist.merge.cands
        /\ hist.merge.saved =>
              hist.merge.snap = hist.merge.before \cup hist.merge.cands

\* C11: merge ordering: for any records A, B, C, merging the batch [A, B] and
\* then the batch [B, C] yields the same seen set, and the same set of record
\* urls with each url once, as merging [A, B, C] in a single batch
C11_MergeOrdering ==
    (mpc = "merge" /\ consumed = DOMAIN page_links) =>
        LET single == Merge(hist.merge.before, << >>,
                            source.content["p3"], run)
        IN /\ seen = single.scraped_urls
           /\ Urls(projects) = Urls(single.projects)
           /\ NoDuplicateUrl(projects)
           /\ NoDuplicateUrl(single.projects)

\* C11 witness: both batches are merged, B was new and A, B, C are distinct
C11_Witness ==
    /\ mpc = "merge"
    /\ consumed = DOMAIN page_links
    /\ Len(projects) = 3
    /\ hist.merge.before = {}

\* C12: round trip: load_cache returns a state equal to the one save_cache
\* wrote; save_cache(load_cache()) with no merge in between leaves the stored
\* snapshot with the same content; with no snapshot load_cache returns the
\* empty state
C12_RoundTrip ==
    /\ [][(mpc = "rt_saved" /\ mpc' = "rt_loaded") =>
              (seen' = seen /\ projects' = projects)]_vars
    /\ [][(mpc = "rt_loaded" /\ mpc' = "rt_saved"
           /\ cache_file.st = "full") => cache_file' = cache_file]_vars
    /\ [][(cache_file.st = "absent" /\ mpc' = "rt_loaded") =>
              (seen' = {} /\ projects' = << >>)]_vars

\* the last row of recs with url u
LastOf(recs, u) ==
    recs[CHOOSE i \in DOMAIN recs :
            /\ recs[i].URL = u
            /\ \A j \in DOMAIN recs : recs[j].URL = u => j <= i]

\* C13: export merges rather than replaces: the export step completes, with
\* or without a previous table and with or without cache records; the urls of
\* the table it writes are those of the previous table and of the cache
\* records; for a url in both the row kept is the cache's; with no cache
\* record the rows of the previous table are written unchanged (stated for
\* runs with no fault)
C13_ExportMerge ==
    [][(mpc = "export" /\ NoFault /\ PrevNoFault) =>
          /\ mpc' # "aborted"
          /\ mpc' = "done" =>
                /\ Urls(output_csv'.rows) =
                       Urls(output_csv.rows) \cup Urls(projects)
                /\ \A u \in Urls(output_csv.rows) \cap Urls(projects) :
                       \A i \in DOMAIN output_csv'.rows :
                           output_csv'.rows[i].URL = u =>
                               output_csv'.rows[i] = LastOf(projects, u)
                /\ projects = << >> => output_csv'.rows = output_csv.rows]_vars

\* C14: summary counters: when a run has exported, the count it reports as
\* newly added records is the number of records appended to cache['projects']
\* during the run, and the count it reports as total is the number of rows of
\* the table it wrote (stated for runs with no fault)
C14_SummaryCounters ==
    (mpc = "done" /\ NoFault /\ DistinctPages) =>
        /\ summary.new = hist.added
        /\ summary.total = Len(output_csv.rows)

\* C15: discovery failure fallback: when a step of the pagination discovery
\* fails (creating the discovery session, loading the seed url, reading the
\* pagination links), the run is not ended by it: it goes on with page_links
\* holding exactly the seed url (stated for the first run, until it is killed)
C15_DiscoveryFallback ==
    (run = 1 /\ mpc # "crashed" /\ hist.discovery \in {"no_driver", "failed"}) =>
        /\ mpc # "aborted"
        /\ page_links = <<main_url>>

\* the future of page unit w has its result or its exception
Terminal(w) == futures[w].pc \in {"returned", "raised"}

\* C16: page unit lifecycle: within a run a page unit goes from pending to in
\* flight to returned or raised and never back: a unit in flight is not
\* pending again and a terminal unit is not touched again; and the page set
\* dispatched holds each page url at most once
C16_PageUnitLifecycle ==
    /\ [](PoolOpen =>
              \A i, j \in DOMAIN page_links :
                  i # j => page_links[i] # page_links[j])
    /\ [][mpc' \notin {"crashed", "load"} =>
            \A w \in Futures :
                /\ Terminal(w) => futures'[w] = futures[w]
                /\ Running(w) => futures'[w].pc \notin {"none", "pending"}
                /\ futures[w].pc = "pending" =>
                      futures'[w].pc \in {"pending", "get", "returned", "raised"}]_vars

\* the records of the results main has consumed so far in this run
ConsumedRecords ==
    UNION {{futures[w].page_data[i] : i \in DOMAIN futures[w].page_data} :
              w \in {v \in consumed : futures[v].pc = "returned"}}

\* C17: incremental persistence ordering: whenever main is about to consume
\* a result, and no save_cache of the run has failed, the cache file holds a
\* whole snapshot that contains every record of every result consumed before
C17_PersistBeforeNext ==
    (mpc = "collect" /\ ~hist.persistFailed /\ ConsumedRecords # {}) =>
        /\ cache_file.st = "full"
        /\ \A r \in ConsumedRecords :
              \E j \in DOMAIN cache_file.projects : cache_file.projects[j] = r

\* C17 witness: a non-empty result has been consumed and saved, and a later
\* non-empty result is ready to be consumed
C17_Witness ==
    /\ mpc = "collect"
    /\ DistinctPages
    /\ ~hist.persistFailed
    /\ ConsumedRecords # {}
    /\ \E w \in Futures \ consumed :
          futures[w].pc = "returned" /\ futures[w].page_data # << >>

\* C18: termination: under fair scheduling and bounded fetches, a run that
\* has dispatched its pages eventually reaches the export step, whatever the
\* mix of completed and failed units, and when it does every dispatched page
\* unit has its result or its exception
C18_Termination ==
    /\ [](mpc = "export" => \A w \in DOMAIN page_links : Terminal(w))
    /\ (mpc = "collect") ~> (mpc = "export")

\* C18 witness: the run is at the export step after one unit failed and
\* another returned records
C18_Witness ==
    /\ mpc = "export"
    /\ ~hist.ioFailed
    /\ hist.failed # {}
    /\ \E w \in Futures : futures[w].pc = "returned" /\ futures[w].page_data # << >>

\* the page units whose worker holds a browser session: setup_driver has
\* returned (line 89) and driver.quit() has not been called yet (line 123)
OpenSessions == {w \in Futures : Running(w)}

ItemsDone(w) ==
    LET f == futures[w] IN
    IF f.pc \in {"item", "add"} THEN SubSeq(Items(w), 1, f.i - 1)
    ELSE IF f.pc \in {"quit", "returned"} /\ w \notin hist.failed
              /\ f.i = Len(Items(w))
    THEN Items(w)
    ELSE << >>

\* the records of the items of a page whose name and link can be read
RECURSIVE NonFailing(_, _)
NonFailing(items, now) ==
    IF items = << >> THEN << >>
    ELSE IF Head(items).href = NoLink THEN NonFailing(Tail(items), now)
    ELSE <<Record(Head(items), now)>> \o NonFailing(Tail(items), now)

\* s can be got from t by leaving rows out
RECURSIVE IsSubSeq(_, _)
IsSubSeq(s, t) ==
    IF s = << >> THEN TRUE
    ELSE IF t = << >> THEN FALSE
    ELSE IF Head(s) = Head(t) THEN IsSubSeq(Tail(s), Tail(t))
    ELSE IsSubSeq(s, Tail(t))

\* page unit w is the only one whose worker has started, in a first run
Alone(w) ==
    /\ run = 1
    /\ \A v \in Futures \ {w} : futures[v].pc \in {"none", "pending"}

\* C20: per-item error isolation: at every point of a worker's item loop its
\* page_data holds records of non-failing items only, in document order;
\* every non-failing item it has gone through is in seen (none was dropped);
\* no failing item has put anything in seen; and for a worker running alone
\* on an empty cache page_data and seen are exactly what the loop gives for
\* the non-failing items not seen before
C20_ItemIsolation ==
    \A w \in Futures :
        (futures[w].pc \in {"item", "add", "quit", "returned"}
            /\ w \notin hist.failed) =>
            /\ IsSubSeq(futures[w].page_data, NonFailing(ItemsDone(w), run))
            /\ Urls(NonFailing(ItemsDone(w), run)) \subseteq seen
            /\ NoLink \notin seen
            /\ Alone(w) =>
                  LET r == ScrapeItems(ItemsDone(w), {}, run) IN
                  /\ futures[w].page_data = r.page_data
                  /\ seen = r.scraped_urls

\* C20 witness: a worker has returned the record of the item that follows a
\* failing item of its page
C20_Witness ==
    \E w \in Futures :
        /\ futures[w].pc = "returned"
        /\ w \notin hist.failed
        /\ Alone(w)
        /\ \E k \in DOMAIN Items(w) :
              /\ Items(w)[k].href = NoLink
              /\ \E n \in DOMAIN futures[w].page_data :
                    \E m \in DOMAIN Items(w) :
                        m > k /\ futures[w].page_data[n].URL = Items(w)[m].href

====
